---- MODULE Spec2Model ----
(***************************************************************************)
(* Mail.tm bulk account creator: the batch provisioning pipeline.          *)
(*                                                                         *)
(* The repository holds three implementations of the same pipeline:        *)
(*   cli_v1    create-accounts.ts, first version  (part_003, lines 1-254)  *)
(*   cli_v2    create-accounts.ts, second version (part_003, lines 256-541)*)
(*   workflow  the Mastra workflow (part_001) driving the tools of         *)
(*             src/mastra/tools/mailTmTool.ts                              *)
(* The variable "variant" says which one runs.                             *)
(*                                                                         *)
(* Texts (response bodies, messages, addresses) are sequences of tokens;   *)
(* a number rendered into a text is the sequence of its decimal digits.    *)
(* Times are milliseconds.                                                 *)
(***************************************************************************)
EXTENDS Integers, Sequences, FiniteSets, TLC

VARIABLES
    variant,       \* which implementation runs
    pc,            \* position of the single thread of control
    domainTries,   \* fetchDomains: GET /domains calls issued so far
    count,         \* number of accounts to create
    exists,        \* result of checkAccountExists
    i,             \* batch loop index (1-based)
    attempt,       \* createAccount / createSingleAccount loop variable
    delay,         \* createAccount: current backoff delay
    results,       \* the ledger: results[] of main, foreach output of the workflow
    successCount,  \* running counter of main
    failCount,     \* running counter of main
    report,        \* what was written to accounts.txt (NoReport before)
    lastResp,      \* history: the upstream answer to the latest creation call
    calls,         \* history: creation calls issued for the current identity
    waited,        \* history: time slept inside the governor for the current identity
    lastWait,      \* history: length of the latest sleep inside the governor
    nRateLimited,  \* history: answers with status 429 for the current identity
    nTransient,    \* history: network errors and 5xx answers for the current identity
    paces,         \* history: inter-request pacing sleeps of the batch loop
    paced,         \* history: total time of the inter-request pacing sleeps
    domains,       \* what fetchDomains obtained: "none", "ok", "empty", "fail"
    probeResp,     \* history: the upstream answer to POST /token
    inFlight,      \* history: creation calls issued and not yet answered
    cancelAfter,   \* history: ledger length when cancellation was signalled, -1 before
    arg,           \* input of the function under study (pure-function runs)
    ret            \* its result (pure-function runs)

vars == <<variant, pc, domainTries, count, exists, i, attempt, delay, results,
          successCount, failCount, report, lastResp, calls, waited, lastWait,
          nRateLimited, nTransient, paces, paced, domains, probeResp,
          inFlight, cancelAfter, arg, ret>>

(***************************************************************************)
(* Bounds                                                                  *)
(***************************************************************************)
MaxCount == 2      \* largest batch size the operator may ask for
MaxLedger == 2     \* longest ledger handed to the report aggregator
MaxGenCount == 105 \* largest count handed to the address generation
MaxAnswers == 2    \* longest sequence of operator answers to one prompt
MaxAnswerLen == 2  \* longest operator answer, in characters
MaxDomains == 2    \* longest domain list offered by the domain prompt

(***************************************************************************)
(* Program constants                                                       *)
(***************************************************************************)
Variants == {"cli_v1", "cli_v2", "workflow"}
IsCli == variant \in {"cli_v1", "cli_v2"}

retries == 7                 \* createAccount(address, password, retries = 7)
maxRetries == 7              \* createSingleAccount: const maxRetries = 7
FetchDomainsAttempts == 3    \* fetchDomains (v2): attempt <= 3

\* let delay = 3000 (v1) / 1500 (v2); the workflow's 3000 base
BaseDelay(v) == IF v = "cli_v2" THEN 1500 ELSE 3000
\* await sleep(3000) (v1) / sleep(1500) (v2) between requests
PaceDelay(v) == IF v = "cli_v2" THEN 1500 ELSE 3000

\* a backoff that triples the delay
NextDelayTripled(d) == d * 3

\* delay *= 2
NextDelay(d) == d * 2

RECURSIVE Pow2(_)
Pow2(n) == IF n = 0 THEN 1 ELSE 2 * Pow2(n - 1)

(***************************************************************************)
(* Texts                                                                   *)
(***************************************************************************)
DigitChar(d) == CASE d = 0 -> "0" [] d = 1 -> "1" [] d = 2 -> "2" [] d = 3 -> "3"
                  [] d = 4 -> "4" [] d = 5 -> "5" [] d = 6 -> "6" [] d = 7 -> "7"
                  [] d = 8 -> "8" [] d = 9 -> "9"

Digits == {"0", "1", "2", "3", "4", "5", "6", "7", "8", "9"}

DigitValue(c) == CHOOSE d \in 0..9 : DigitChar(d) = c

\* the number a sequence of digit characters denotes
RECURSIVE NumberOf(_)
NumberOf(s) == IF Len(s) = 0 THEN 0
               ELSE 10 * NumberOf(SubSeq(s, 1, Len(s) - 1)) + DigitValue(s[Len(s)])

\* String(num) for a non-negative integer
RECURSIVE String(_)
String(num) == IF num < 10 THEN <<DigitChar(num)>>
               ELSE String(num \div 10) \o <<DigitChar(num % 10)>>

\* text.includes(pattern): pattern occurs as a contiguous run of text
Includes(text, pattern) ==
    \E k \in 0..(Len(text) - Len(pattern)) :
        \A j \in 1..Len(pattern) : text[k + j] = pattern[j]

\* function pad(num, size): while (s.length < size) s = "0" + s
RECURSIVE PadTo(_, _)
PadTo(s, size) == IF Len(s) < size THEN PadTo(<<"0">> \o s, size) ELSE s
pad(num, size) == PadTo(String(num), size)

\* a pad width without the minimum of 2
padSizeNoMinimum(cnt) == Len(String(cnt))

\* const padSize = String(count).length < 2 ? 2 : String(count).length
padSize(cnt) == IF Len(String(cnt)) < 2 THEN 2 ELSE Len(String(cnt))

\* `${baseUsername}${pad(i, padSize)}@${domain}` (CLI),
\* `usmansreplitaccount${i}@${domain}` (workflow)
AddressOf(baseUsername, v, k, cnt) ==
    IF v = "workflow" THEN <<"usmansreplitaccount">> \o String(k) \o <<"@", "domain">>
    ELSE baseUsername \o pad(k, padSize(cnt)) \o <<"@", "domain">>

\* the addresses of a run whose operator answered "base"
Address(v, k, cnt) == AddressOf(<<"base">>, v, k, cnt)

Password == <<"secret">>

(***************************************************************************)
(* Upstream answers to POST /accounts                                      *)
(***************************************************************************)
BodyWithId      == <<"{", "id", "}">>
BodyNoId        == <<"{", "}">>
BodyEmpty       == << >>
BodyAlreadyUsed == <<"{", "address:", "already", "used", "}">>
BodyOther       == <<"{", "invalid", "}">>
BodyQuota429    == <<"{", "quota", "4", "2", "9", "}">>

NetErrMessage == <<"fetch", "failed">>

Http(status, body) == [kind |-> "http", status |-> status, body |-> body]
NetErr == [kind |-> "neterr", status |-> 0, body |-> NetErrMessage]
NoResp == [kind |-> "none", status |-> 0, body |-> << >>]

Responses ==
    { Http(201, BodyWithId), Http(201, BodyNoId), Http(200, BodyEmpty),
      Http(422, BodyAlreadyUsed), Http(422, BodyOther), Http(400, BodyQuota429),
      Http(429, BodyOther), Http(500, BodyOther), NetErr }

\* response.ok
Ok(resp) == resp.kind = "http" /\ resp.status >= 200 /\ resp.status <= 299

\* response.json() returns (does not throw) and the value has properties
JsonParses(body) == Len(body) >= 2 /\ body[1] = "{" /\ body[Len(body)] = "}"
\* result.id || ""
JsonId(body) == IF Includes(body, <<"id">>) THEN <<"acc">> ELSE << >>

PatAlreadyUsed == <<"already", "used">>
Pat429 == <<"4", "2", "9">>

(***************************************************************************)
(* ProvisionAttempt: one creation call and its classification              *)
(***************************************************************************)
\* createMailTmAccount.execute with a network error thrown by fetch
ToolCatch(address, errMessage) ==
    [address |-> address, password |-> Password, success |-> FALSE,
     accountId |-> << >>, message |-> <<"Error:">> \o errMessage]

\* createMailTmAccount.execute without the 422 "already used" branch
CreateMailTmAccountNoDuplicate(address, resp) ==
    IF resp.kind = "neterr" THEN ToolCatch(address, resp.body)
    ELSE IF ~Ok(resp) THEN
        [address |-> address, password |-> Password, success |-> FALSE,
         accountId |-> << >>,
         message |-> <<"Failed:">> \o String(resp.status) \o <<"-">> \o resp.body]
    ELSE IF JsonParses(resp.body)
        THEN [address |-> address, password |-> Password, success |-> TRUE,
              accountId |-> JsonId(resp.body),
              message |-> <<"Account created successfully">>]
        ELSE ToolCatch(address, <<"Unexpected end of JSON input">>)

\* createMailTmAccount.execute: the result for one upstream answer
CreateMailTmAccount(address, resp) ==
    IF resp.kind = "neterr" THEN ToolCatch(address, resp.body)
    ELSE IF ~Ok(resp) THEN
        IF resp.status = 422 /\ Includes(resp.body, PatAlreadyUsed)
        THEN [address |-> address, password |-> Password, success |-> TRUE,
              accountId |-> <<"already-exists">>,
              message |-> <<"Account already exists">>]
        ELSE [address |-> address, password |-> Password, success |-> FALSE,
              accountId |-> << >>,
              message |-> <<"Failed:">> \o String(resp.status) \o <<"-">> \o resp.body]
    ELSE IF JsonParses(resp.body)
        THEN [address |-> address, password |-> Password, success |-> TRUE,
              accountId |-> JsonId(resp.body),
              message |-> <<"Account created successfully">>]
        ELSE ToolCatch(address, <<"Unexpected end of JSON input">>)

CliResult(address, success, message) ==
    [address |-> address, password |-> Password, success |-> success,
     message |-> message]

\* createAccount whose catch block returns the error without retrying
CreateAccountOnResponseNoNetRetry(address, resp, att) ==
    IF resp.kind = "neterr" THEN
        [act |-> "return", result |-> CliResult(address, FALSE, resp.body)]
    ELSE IF Ok(resp) THEN
        [act |-> "return", result |-> CliResult(address, TRUE, <<"Created">>)]
    ELSE IF resp.status = 422 /\ Includes(resp.body, PatAlreadyUsed) THEN
        [act |-> "return", result |-> CliResult(address, TRUE, <<"Already exists">>)]
    ELSE IF resp.status = 429 THEN
        [act |-> "sleep", result |-> CliResult(address, FALSE, << >>)]
    ELSE
        [act |-> "return",
         result |-> CliResult(address, FALSE,
                      <<"HTTP">> \o String(resp.status) \o <<":">> \o resp.body)]

\* createAccount (CLI): what the loop body does with one upstream answer.
\* act = "return": the function returns result; act = "sleep": it sleeps
\* delay, doubles delay and goes to the next iteration.
CreateAccountOnResponse(address, resp, att) ==
    IF resp.kind = "neterr" THEN
        IF att = retries
        THEN [act |-> "return", result |-> CliResult(address, FALSE, resp.body)]
        ELSE [act |-> "sleep", result |-> CliResult(address, FALSE, << >>)]
    ELSE IF Ok(resp) THEN
        [act |-> "return", result |-> CliResult(address, TRUE, <<"Created">>)]
    ELSE IF resp.status = 422 /\ Includes(resp.body, PatAlreadyUsed) THEN
        [act |-> "return", result |-> CliResult(address, TRUE, <<"Already exists">>)]
    ELSE IF resp.status = 429 THEN
        [act |-> "sleep", result |-> CliResult(address, FALSE, << >>)]
    ELSE
        [act |-> "return",
         result |-> CliResult(address, FALSE,
                      <<"HTTP">> \o String(resp.status) \o <<":">> \o resp.body)]

\* createAccount (CLI): the statement after the for loop
MaxRetriesReached(address) == CliResult(address, FALSE, <<"Max retries reached">>)

\* createSingleAccount (workflow): what the loop body does with the tool's
\* result. The loop (attempt = 0..maxRetries) always returns from its body:
\* on the last attempt the "continue" test fails, so the statement after
\* the loop ("Max retries exceeded due to rate limiting") is never reached.
\* The tool is always called with two strings, so its input validation
\* error ("error" in result) does not occur.
CreateSingleAccountOnResult(typedResult, att) ==
    IF typedResult.success THEN [act |-> "return", result |-> typedResult]
    ELSE IF Includes(typedResult.message, Pat429) /\ att < maxRetries
        THEN [act |-> "continue", result |-> typedResult]
        ELSE [act |-> "return", result |-> typedResult]

\* a step whose delay grows linearly with the attempt
StepDelayLinear(att) == IF att = 0 THEN 3000 ELSE 3000 * att

\* createSingleAccount (workflow): the sleep before every call
StepDelay(att) == IF att = 0 THEN 3000 ELSE 3000 * Pow2(att - 1)

(***************************************************************************)
(* BatchRunner helpers                                                     *)
(***************************************************************************)
\* results.unshift(result) instead of push
PushResultFront(res, result) == <<result>> \o res

\* results.push(result)
PushResult(res, result) == Append(res, result)

\* a loop that stops at the first failed request
AfterResultAbortOnFailure(v, idx, cnt, result) ==
    IF idx < cnt /\ result.success
    THEN (IF v = "workflow" THEN "next" ELSE "pace") ELSE "report"

\* a loop in which a failed request ends the program
AfterResultExitOnFailure(v, idx, cnt, result) ==
    IF ~result.success THEN "aborted"
    ELSE IF idx < cnt THEN (IF v = "workflow" THEN "next" ELSE "pace") ELSE "report"

\* a loop that skips the sleep between requests after a failed request
AfterResultNoPaceOnFailure(v, idx, cnt, result) ==
    IF idx < cnt THEN (IF v = "workflow" \/ ~result.success THEN "next" ELSE "pace")
    ELSE "report"

\* where main / foreach goes once request idx has its result
AfterResult(v, idx, cnt, result) ==
    IF idx < cnt THEN (IF v = "workflow" THEN "next" ELSE "pace") ELSE "report"

(***************************************************************************)
(* ReportAggregator                                                        *)
(***************************************************************************)
NoReport == [written |-> FALSE]

\* a success filter that looks at the account id instead of the flag
SuccessfulAccountsById(accounts) == SelectSeq(accounts, LAMBDA a : a.accountId # << >>)

\* inputData.accounts.filter((a) => a.success) / filter((a) => !a.success)
SuccessfulAccounts(accounts) == SelectSeq(accounts, LAMBDA a : a.success)
FailedAccounts(accounts) == SelectSeq(accounts, LAMBDA a : ~a.success)

\* exportAccountsToFile.execute: the counts and the two rendered blocks
ExportAccountsToFile(accounts) ==
    LET successfulAccounts == SuccessfulAccounts(accounts)
        failedAccounts == FailedAccounts(accounts)
    IN [written |-> TRUE,
        totalCreated |-> Len(successfulAccounts),
        totalFailed |-> Len(failedAccounts),
        successBlock |-> [k \in 1..Len(successfulAccounts) |->
                            <<successfulAccounts[k].address,
                              successfulAccounts[k].password>>],
        failedBlock |-> [k \in 1..Len(failedAccounts) |->
                            <<failedAccounts[k].address,
                              failedAccounts[k].message>>]]

\* a report that renders the failed block only for several failures
CliReportFailedIfSeveral(res, sc, fc) ==
    LET ok == SelectSeq(res, LAMBDA r : r.success)
        bad == SelectSeq(res, LAMBDA r : ~r.success)
    IN [written |-> TRUE,
        totalCreated |-> sc,
        totalFailed |-> fc,
        successBlock |-> [k \in 1..Len(ok) |-> <<ok[k].address, ok[k].password>>],
        failedBlock |-> IF fc > 1
                        THEN [k \in 1..Len(bad) |-> <<bad[k].address, bad[k].message>>]
                        ELSE << >>]

\* main (CLI): the report text built from the running counters and results
CliReport(res, sc, fc) ==
    LET ok == SelectSeq(res, LAMBDA r : r.success)
        bad == SelectSeq(res, LAMBDA r : ~r.success)
    IN [written |-> TRUE,
        totalCreated |-> sc,
        totalFailed |-> fc,
        successBlock |-> [k \in 1..Len(ok) |-> <<ok[k].address, ok[k].password>>],
        failedBlock |-> IF fc > 0
                        THEN [k \in 1..Len(bad) |-> <<bad[k].address, bad[k].message>>]
                        ELSE << >>]

(***************************************************************************)
(* ExistenceProbe                                                          *)
(***************************************************************************)
\* upstream answers to POST /token
ProbeResponses == { Http(200, BodyWithId), Http(401, BodyOther), NetErr }

\* checkAccountExists without its try / catch
CheckAccountExistsNoCatch(resp) ==
    IF resp.kind = "neterr" THEN [threw |-> TRUE, value |-> FALSE]
    ELSE [threw |-> FALSE, value |-> Ok(resp)]

\* checkAccountExists: return res.ok; catch { return false }
CheckAccountExistsOnResponse(resp) ==
    IF resp.kind = "neterr" THEN [threw |-> FALSE, value |-> FALSE]
    ELSE [threw |-> FALSE, value |-> Ok(resp)]

(***************************************************************************)
(* The program                                                             *)
(***************************************************************************)
Init ==
    /\ variant \in Variants
    /\ pc = "start"
    /\ domainTries = 0
    /\ count = 0
    /\ exists = FALSE
    /\ i = 0
    /\ attempt = 0
    /\ delay = 0
    /\ results = << >>
    /\ successCount = 0
    /\ failCount = 0
    /\ report = NoReport
    /\ lastResp = NoResp
    /\ calls = 0
    /\ waited = 0
    /\ lastWait = 0
    /\ nRateLimited = 0
    /\ nTransient = 0
    /\ paces = 0
    /\ paced = 0
    /\ domains = "none"
    /\ probeResp = NoResp
    /\ inFlight = 0
    /\ cancelAfter = -1
    /\ arg = << >>
    /\ ret = << >>

history == <<lastResp, calls, waited, lastWait, nRateLimited, nTransient>>
batch == <<i, attempt, delay, results, successCount, failCount, report, paces, paced>>
startup == <<domains, probeResp>>

\* a startup that goes on to the prompts with an empty domain list
AfterFetchDomainsEmptyAccepted(v, answer, tries) ==
    IF answer \in {"ok", "empty"} THEN "prompts"
    ELSE IF v \in {"cli_v1", "workflow"} THEN "aborted"
    ELSE IF tries < FetchDomainsAttempts THEN "start" ELSE "aborted"

\* where the program goes after the tries-th answer to GET /domains:
\* v1: fetchDomains throws on a failure, main stops; an empty list is kept.
\* workflow: prepareAccountList throws on a failure and on an empty list.
\* v2: fetchDomains tries again after a failure, 3 times in all, then
\* returns []; main stops on an empty list.
AfterFetchDomains(v, answer, tries) ==
    IF answer = "ok" THEN "prompts"
    ELSE IF v = "cli_v1" THEN (IF answer = "empty" THEN "prompts" ELSE "aborted")
    ELSE IF v = "workflow" THEN "aborted"
    ELSE IF answer = "fail" /\ tries < FetchDomainsAttempts THEN "start" ELSE "aborted"

\* fetchDomains: one GET /domains call. answer is "ok" (a non-empty list),
\* "empty" (2xx with an empty list) or "fail" (non-2xx or network error).
\* v1 and the workflow tool call once and throw on failure; v2 tries 3 times
\* (sleeping 2000 after each failure) and main stops on an empty list.
FetchDomains ==
    /\ pc = "start"
    /\ \E answer \in {"ok", "empty", "fail"} :
        /\ domainTries' = domainTries + 1
        /\ domains' = answer
        /\ pc' = AfterFetchDomains(variant, answer, domainTries + 1)
    /\ UNCHANGED <<variant, arg, ret, count, exists, probeResp, inFlight, cancelAfter>>
    /\ UNCHANGED batch
    /\ UNCHANGED history

\* a governor whose delay is shared by all requests of the batch
EnterGovernorSharedDelay(idx) ==
    /\ i' = idx
    /\ attempt' = IF variant = "workflow" THEN 0 ELSE 1
    /\ delay' = IF idx = 1 THEN BaseDelay(variant) ELSE delay
    /\ pc' = IF variant = "workflow" THEN "presleep" ELSE "call"
    /\ lastResp' = NoResp
    /\ calls' = 0
    /\ waited' = 0
    /\ lastWait' = 0
    /\ nRateLimited' = 0
    /\ nTransient' = 0

\* a loop that hands the previous request to the governor once more
EnterGovernorSameIdentity(idx) ==
    /\ i' = IF idx > 1 THEN idx - 1 ELSE idx
    /\ attempt' = IF variant = "workflow" THEN 0 ELSE 1
    /\ delay' = BaseDelay(variant)
    /\ pc' = IF variant = "workflow" THEN "presleep" ELSE "call"
    /\ lastResp' = NoResp
    /\ calls' = 0
    /\ waited' = 0
    /\ lastWait' = 0
    /\ nRateLimited' = 0
    /\ nTransient' = 0

\* createAccount entry (let delay = ...; attempt = 1) and createSingleAccount
\* entry (attempt = 0, then the sleep before the first call)
EnterGovernor(idx) ==
    /\ i' = idx
    /\ attempt' = IF variant = "workflow" THEN 0 ELSE 1
    /\ delay' = BaseDelay(variant)
    /\ pc' = IF variant = "workflow" THEN "presleep" ELSE "call"
    /\ lastResp' = NoResp
    /\ calls' = 0
    /\ waited' = 0
    /\ lastWait' = 0
    /\ nRateLimited' = 0
    /\ nTransient' = 0

\* a main that starts the batch loop right after the prompts
AskParametersSkipProbe ==
    /\ pc = "prompts"
    /\ \E n \in 1..MaxCount, valid \in BOOLEAN :
        /\ count' = n
        /\ IF variant = "workflow" \/ valid
           THEN EnterGovernor(1)
           ELSE /\ pc' = "aborted"
                /\ UNCHANGED <<i, attempt, delay>>
                /\ UNCHANGED history
    /\ UNCHANGED <<variant, arg, ret, domainTries, exists, results, successCount,
                   failCount, report, paces, paced, inFlight, cancelAfter>>
    /\ UNCHANGED startup

\* askCount .. askUsername (CLI) / prepareAccountList (workflow): the batch
\* size is fixed; the workflow then starts its foreach. v1 stops the program
\* on an invalid answer to a later prompt, v2 asks again until it is valid.
AskParameters ==
    /\ pc = "prompts"
    /\ \E n \in 1..MaxCount, valid \in BOOLEAN :
        /\ count' = n
        /\ IF variant = "workflow"
           THEN EnterGovernor(1)
           ELSE /\ pc' = IF variant = "cli_v1" /\ ~valid THEN "aborted" ELSE "probe"
                /\ UNCHANGED <<i, attempt, delay>>
                /\ UNCHANGED history
    /\ UNCHANGED <<variant, arg, ret, domainTries, exists, results, successCount,
                   failCount, report, paces, paced, inFlight, cancelAfter>>
    /\ UNCHANGED startup

\* checkAccountExists: POST /token once, then the batch loop starts at i = 1.
\* A value thrown by checkAccountExists would reach main().catch, which
\* ends the process.
CheckAccountExists ==
    /\ pc = "probe"
    /\ \E resp \in ProbeResponses :
        LET r == CheckAccountExistsOnResponse(resp)
        IN /\ probeResp' = resp
           /\ IF r.threw
              THEN /\ pc' = "aborted"
                   /\ UNCHANGED <<exists, i, attempt, delay>>
                   /\ UNCHANGED history
              ELSE /\ exists' = r.value
                   /\ EnterGovernor(1)
    /\ UNCHANGED <<variant, arg, ret, domainTries, count, results, successCount,
                   failCount, report, paces, paced, domains, inFlight, cancelAfter>>

\* createSingleAccount: await setTimeout(delay) before each call is over
PreSleepDone ==
    /\ pc = "presleep"
    /\ variant = "workflow"
    /\ waited' = waited + StepDelay(attempt)
    /\ lastWait' = StepDelay(attempt)
    /\ pc' = "call"
    /\ UNCHANGED <<variant, arg, ret, domainTries, count, exists, lastResp, calls,
                   nRateLimited, nTransient, inFlight, cancelAfter>>
    /\ UNCHANGED batch
    /\ UNCHANGED startup

\* fetch("https://api.mail.tm/accounts", POST) is issued twice before the
\* function waits for an answer
IssueCallNoAwait ==
    /\ pc = "call"
    /\ calls' = calls + 1
    /\ inFlight' = inFlight + 1
    /\ pc' = IF inFlight = 0 THEN "call" ELSE "in_flight"
    /\ UNCHANGED <<variant, arg, ret, domainTries, count, exists, lastResp, waited,
                   lastWait, nRateLimited, nTransient, cancelAfter>>
    /\ UNCHANGED batch
    /\ UNCHANGED startup

\* await fetch("https://api.mail.tm/accounts", POST): the call is issued and
\* the function waits for its answer
IssueCall ==
    /\ pc = "call"
    /\ calls' = calls + 1
    /\ inFlight' = inFlight + 1
    /\ pc' = "in_flight"
    /\ UNCHANGED <<variant, arg, ret, domainTries, count, exists, lastResp, waited,
                   lastWait, nRateLimited, nTransient, cancelAfter>>
    /\ UNCHANGED batch
    /\ UNCHANGED startup

\* a loop body that counts a failed request in both counters
ResolveCountingFailureTwice(result) ==
    /\ results' = PushResult(results, result)
    /\ IF IsCli
       THEN /\ successCount' = successCount + 1
            /\ failCount' = IF result.success THEN failCount ELSE failCount + 1
       ELSE UNCHANGED <<successCount, failCount>>
    /\ pc' = AfterResult(variant, i, count, result)

\* main: results.push(result), the running counters, and where the loop goes
Resolve(result) ==
    /\ results' = PushResult(results, result)
    /\ IF IsCli
       THEN /\ successCount' = IF result.success THEN successCount + 1 ELSE successCount
            /\ failCount' = IF result.success THEN failCount ELSE failCount + 1
       ELSE UNCHANGED <<successCount, failCount>>
    /\ pc' = AfterResult(variant, i, count, result)

Record(resp) ==
    /\ lastResp' = resp
    /\ nRateLimited' = IF resp.kind = "http" /\ resp.status = 429
                       THEN nRateLimited + 1 ELSE nRateLimited
    /\ nTransient' = IF resp.kind = "neterr" \/ (resp.kind = "http" /\ resp.status >= 500)
                     THEN nTransient + 1 ELSE nTransient

\* createAccount (CLI): the upstream answer arrives
CreateAccountResponse ==
    /\ pc = "in_flight"
    /\ IsCli
    /\ inFlight' = inFlight - 1
    /\ \E resp \in Responses :
        LET d == CreateAccountOnResponse(Address(variant, i, count), resp, attempt)
        IN /\ Record(resp)
           /\ IF d.act = "return"
              THEN Resolve(d.result)
              ELSE /\ pc' = "backoff"
                   /\ UNCHANGED <<results, successCount, failCount>>
    /\ UNCHANGED <<variant, arg, ret, domainTries, count, exists, i, attempt, delay,
                   report, paces, paced, calls, waited, lastWait, cancelAfter>>
    /\ UNCHANGED startup

\* createAccount (CLI): sleep(delay) is over; delay *= 2; attempt++; the loop
\* test; after the loop "Max retries reached"
BackoffDone ==
    /\ pc = "backoff"
    /\ waited' = waited + delay
    /\ lastWait' = delay
    /\ delay' = NextDelay(delay)
    /\ attempt' = attempt + 1
    /\ IF attempt + 1 <= retries
       THEN /\ pc' = "call"
            /\ UNCHANGED <<results, successCount, failCount>>
       ELSE Resolve(MaxRetriesReached(Address(variant, i, count)))
    /\ UNCHANGED <<variant, arg, ret, domainTries, count, exists, i, report, paces,
                   paced, lastResp, calls, nRateLimited, nTransient, inFlight,
                   cancelAfter>>
    /\ UNCHANGED startup

\* createSingleAccount (workflow): the tool returns its result
CreateSingleAccountResult ==
    /\ pc = "in_flight"
    /\ variant = "workflow"
    /\ inFlight' = inFlight - 1
    /\ \E resp \in Responses :
        LET typedResult == CreateMailTmAccount(Address(variant, i, count), resp)
            d == CreateSingleAccountOnResult(typedResult, attempt)
        IN /\ Record(resp)
           /\ IF d.act = "return"
              THEN /\ Resolve(d.result)
                   /\ UNCHANGED attempt
              ELSE /\ attempt' = attempt + 1
                   /\ pc' = "presleep"
                   /\ UNCHANGED <<results, successCount, failCount>>
    /\ UNCHANGED <<variant, arg, ret, domainTries, count, exists, i, delay,
                   report, paces, paced, calls, waited, lastWait, cancelAfter>>
    /\ UNCHANGED startup

\* main (CLI): if (i < count) await sleep(pace) is over; i++; next createAccount
PaceDone ==
    /\ pc = "pace"
    /\ paces' = paces + 1
    /\ paced' = paced + PaceDelay(variant)
    /\ EnterGovernor(i + 1)
    /\ UNCHANGED <<variant, arg, ret, domainTries, count, exists, results, successCount,
                   failCount, report, inFlight, cancelAfter>>
    /\ UNCHANGED startup

\* foreach (workflow, concurrency 1): the next item
ForeachNext ==
    /\ pc = "next"
    /\ EnterGovernor(i + 1)
    /\ UNCHANGED <<variant, arg, ret, domainTries, count, exists, results, successCount,
                   failCount, report, paces, paced, inFlight, cancelAfter>>
    /\ UNCHANGED startup

\* A cancellation signal is raised between two requests. No statement of
\* main, createAccount or the workflow reads it: the signal only leaves a
\* trace, the ledger length at the time it was raised.
Cancel ==
    /\ pc \in {"pace", "next"}
    /\ cancelAfter = -1
    /\ cancelAfter' = Len(results)
    /\ UNCHANGED <<variant, arg, ret, pc, domainTries, count, exists, inFlight>>
    /\ UNCHANGED batch
    /\ UNCHANGED history
    /\ UNCHANGED startup

\* a report written as soon as some request has its result
WriteReportWhileOutstanding ==
    /\ pc \in {"report", "pace", "next"}
    /\ ~report.written
    /\ report' = IF variant = "workflow" THEN ExportAccountsToFile(results)
                 ELSE CliReport(results, successCount, failCount)
    /\ pc' = IF pc = "report" THEN "done" ELSE pc
    /\ UNCHANGED <<variant, arg, ret, domainTries, count, exists, i, attempt, delay,
                   results, successCount, failCount, paces, paced, inFlight,
                   cancelAfter>>
    /\ UNCHANGED history
    /\ UNCHANGED startup

\* main: fs.writeFileSync("accounts.txt") / exportResults -> exportAccountsToFile
WriteReport ==
    /\ pc = "report"
    /\ report' = IF variant = "workflow" THEN ExportAccountsToFile(results)
                 ELSE CliReport(results, successCount, failCount)
    /\ pc' = "done"
    /\ UNCHANGED <<variant, arg, ret, domainTries, count, exists, i, attempt, delay,
                   results, successCount, failCount, paces, paced, inFlight,
                   cancelAfter>>
    /\ UNCHANGED history
    /\ UNCHANGED startup

Next ==
    \/ FetchDomains
    \/ AskParameters
    \/ CheckAccountExists
    \/ PreSleepDone
    \/ IssueCall
    \/ CreateAccountResponse
    \/ BackoffDone
    \/ CreateSingleAccountResult
    \/ PaceDone
    \/ ForeachNext
    \/ Cancel
    \/ WriteReport

Spec == Init /\ [][Next]_vars

\* Every pending step is eventually taken: an awaited fetch resolves or
\* rejects, a sleep ends, the synchronous code in between runs on.
SpecLive == Spec /\ WF_vars(Next)

(***************************************************************************)
(* The report aggregator as a pure function: exportAccountsToFile applied  *)
(* to every ledger of at most MaxLedger entries the tool can produce.      *)
(***************************************************************************)
RECURSIVE Ledgers(_)
Ledgers(n) ==
    IF n = 0 THEN { << >> }
    ELSE LET shorter == Ledgers(n - 1)
         IN shorter \cup
            { Append(l, CreateMailTmAccount(Address("workflow", n, n), resp)) :
                l \in { s \in shorter : Len(s) = n - 1 }, resp \in Responses }

InitAgg ==
    /\ variant = "workflow"
    /\ pc = "aggregate"
    /\ results \in Ledgers(MaxLedger)
    /\ domainTries = 0
    /\ count = Len(results)
    /\ exists = FALSE
    /\ i = 0
    /\ attempt = 0
    /\ delay = 0
    /\ successCount = 0
    /\ failCount = 0
    /\ report = NoReport
    /\ lastResp = NoResp
    /\ calls = 0
    /\ waited = 0
    /\ lastWait = 0
    /\ nRateLimited = 0
    /\ nTransient = 0
    /\ paces = 0
    /\ paced = 0
    /\ domains = "ok"
    /\ probeResp = NoResp
    /\ inFlight = 0
    /\ cancelAfter = -1
    /\ arg = << >>
    /\ ret = << >>

Aggregate ==
    /\ pc = "aggregate"
    /\ report' = ExportAccountsToFile(results)
    /\ pc' = "aggregated"
    /\ UNCHANGED <<variant, arg, ret, domainTries, count, exists, i, attempt, delay,
                   results, successCount, failCount, paces, paced, inFlight,
                   cancelAfter>>
    /\ UNCHANGED history
    /\ UNCHANGED startup

NextAgg == Aggregate

SpecAgg == InitAgg /\ [][NextAgg]_vars

(***************************************************************************)
(* Runs of one function of the CLI on its own: the variables of main keep   *)
(* their initial values, arg holds the input and ret the result.           *)
(***************************************************************************)
mainVars == <<domainTries, count, exists, i, attempt, delay, results,
              successCount, failCount, report, lastResp, calls, waited,
              lastWait, nRateLimited, nTransient, paces, paced, domains,
              probeResp, inFlight, cancelAfter>>

MainIdle ==
    /\ domainTries = 0
    /\ count = 0
    /\ exists = FALSE
    /\ i = 0
    /\ attempt = 0
    /\ delay = 0
    /\ results = << >>
    /\ successCount = 0
    /\ failCount = 0
    /\ report = NoReport
    /\ lastResp = NoResp
    /\ calls = 0
    /\ waited = 0
    /\ lastWait = 0
    /\ nRateLimited = 0
    /\ nTransient = 0
    /\ paces = 0
    /\ paced = 0
    /\ domains = "ok"
    /\ probeResp = NoResp
    /\ inFlight = 0
    /\ cancelAfter = -1

(***************************************************************************)
(* AddressSequenceGenerator: the address generation of main's loop for     *)
(* every count up to MaxGenCount.                                          *)
(***************************************************************************)
\* for (i = 1; i <= count; i++) { username = ...; address = ... } with the
\* password main passes to createAccount
GenerateRequests(v, cnt) ==
    [k \in 1..cnt |-> [address |-> Address(v, k, cnt), password |-> Password]]

InitGen ==
    /\ variant \in {"cli_v1", "cli_v2"}
    /\ pc = "generate"
    /\ arg \in 1..MaxGenCount
    /\ ret = << >>
    /\ MainIdle

Generate ==
    /\ pc = "generate"
    /\ ret' = GenerateRequests(variant, arg)
    /\ pc' = "generated"
    /\ UNCHANGED <<variant, arg, mainVars>>

NextGen == Generate

SpecGen == InitGen /\ [][NextGen]_vars

(***************************************************************************)
(* The username prompt on its own: arg is the sequence of lines the        *)
(* operator still has to type, each a sequence of characters; ret is the   *)
(* base username main receives, then the first address built from it.      *)
(***************************************************************************)
Chars == {"A", "b", "!", " "}
Whitespace == {" "}
LowerLetters == {"a", "b", "c", "d", "e", "f", "g", "h", "i", "j", "k", "l", "m",
                 "n", "o", "p", "q", "r", "s", "t", "u", "v", "w", "x", "y", "z"}

RECURSIVE Lines(_)
Lines(n) == IF n = 0 THEN {<< >>}
            ELSE Lines(n - 1) \cup {Append(l, c) : l \in Lines(n - 1), c \in Chars}

RECURSIVE Answers(_)
Answers(n) == IF n = 0 THEN {<< >>}
              ELSE Answers(n - 1)
                     \cup {Append(a, l) : a \in Answers(n - 1), l \in Lines(MaxAnswerLen)}

\* answer.trim()
RECURSIVE Trim(_)
Trim(t) == IF t = << >> THEN t
           ELSE IF Head(t) \in Whitespace THEN Trim(Tail(t))
           ELSE IF t[Len(t)] \in Whitespace THEN Trim(SubSeq(t, 1, Len(t) - 1))
           ELSE t

\* input.toLowerCase()
ToLowerCase(t) == [j \in 1..Len(t) |-> IF t[j] = "A" THEN "a" ELSE t[j]]

\* .replace(/[^a-z0-9._-]/g, "")
AllowedChar(c) == c \in LowerLetters \cup Digits \cup {".", "_", "-"}
RemoveDisallowed(t) == SelectSeq(t, AllowedChar)

\* one round of askUsername (v2) / the username prompt of main (v1)
AskUsernameOnAnswer(v, answer) ==
    LET input == Trim(answer)
    IN IF v = "cli_v2"
       THEN IF Len(input) > 0
            THEN [act |-> "return", value |-> RemoveDisallowed(ToLowerCase(input))]
            ELSE [act |-> "ask", value |-> << >>]
       ELSE IF input = << >>
            THEN [act |-> "abort", value |-> << >>]
            ELSE [act |-> "return", value |-> input]

InitUser ==
    /\ variant \in {"cli_v1", "cli_v2"}
    /\ pc = "ask"
    /\ arg \in Answers(MaxAnswers) \ {<< >>}
    /\ ret = << >>
    /\ MainIdle

AskUsername ==
    /\ pc = "ask"
    /\ arg # << >>
    /\ LET r == AskUsernameOnAnswer(variant, Head(arg))
       IN /\ pc' = CASE r.act = "return" -> "asked"
                     [] r.act = "abort" -> "aborted"
                     [] OTHER -> "ask"
          /\ ret' = r.value
    /\ arg' = Tail(arg)
    /\ UNCHANGED <<variant, mainVars>>

\* the first iteration of the batch loop: address of request 1 of 1
BuildAddress ==
    /\ pc = "asked"
    /\ ret' = AddressOf(ret, variant, 1, 1)
    /\ pc' = "addressed"
    /\ UNCHANGED <<variant, arg, mainVars>>

NextUser == AskUsername \/ BuildAddress

SpecUser == InitUser /\ [][NextUser]_vars

(***************************************************************************)
(* The domain prompt of v2 on its own: arg holds the fetched domain list   *)
(* and the line the operator types, ret the domain askDomain returns.      *)
(***************************************************************************)
\* domain names the upstream may list, as character sequences
DomainNames == { <<"x", ".", "c">>, <<"1", "x", ".", "c">>,
                 <<"2", ".", "c">>, <<"x", ".", "1">> }

\* lists of distinct domain names of length 1..n
RECURSIVE DomainLists(_)
DomainLists(n) ==
    IF n = 0 THEN {<< >>}
    ELSE LET shorter == DomainLists(n - 1)
         IN shorter \cup {Append(l, d) : l \in shorter, d \in DomainNames}

HasDuplicates(l) == \E a, b \in 1..Len(l) : a # b /\ l[a] = l[b]

\* what the operator may type: a domain name with or without "@", a
\* number, or something else
DomainInputs ==
    DomainNames \cup {<<"@">> \o d : d \in DomainNames}
        \cup { <<"1">>, <<"2">>, <<"3">>, <<"0">>, <<"x">>, << >> }

\* input.replace(/^@/, "")
StripLeadingAt(t) == IF t # << >> /\ Head(t) = "@" THEN Tail(t) ELSE t

\* length of the run of decimal digits t starts with
RECURSIVE DigitPrefixLen(_)
DigitPrefixLen(t) == IF t = << >> \/ Head(t) \notin Digits THEN 0
                     ELSE 1 + DigitPrefixLen(Tail(t))

\* parseInt(t, 10) of a trimmed text without sign: the number its leading
\* digits denote, NaN when it does not start with a digit
ParseInt(t) ==
    LET n == DigitPrefixLen(t)
    IN IF n = 0 THEN [isNaN |-> TRUE, value |-> 0]
       ELSE [isNaN |-> FALSE, value |-> NumberOf(SubSeq(t, 1, n))]

\* domains.includes(input)
ListIncludes(l, x) == \E k \in 1..Len(l) : l[k] = x

\* one round of askDomain
AskDomainOnAnswer(domainList, answer) ==
    LET input == StripLeadingAt(answer)
        index == ParseInt(input)
    IN IF ~index.isNaN /\ index.value >= 1 /\ index.value <= Len(domainList)
       THEN [act |-> "return", value |-> domainList[index.value]]
       ELSE IF Includes(input, <<".">>)
            THEN IF ListIncludes(domainList, input)
                 THEN [act |-> "return", value |-> input]
                 ELSE [act |-> "ask", value |-> << >>]
            ELSE [act |-> "ask", value |-> << >>]

InitDomain ==
    /\ variant = "cli_v2"
    /\ pc = "ask_domain"
    /\ arg \in [domains : {l \in DomainLists(MaxDomains) : l # << >> /\ ~HasDuplicates(l)},
                input : DomainInputs]
    /\ ret = << >>
    /\ MainIdle

AskDomain ==
    /\ pc = "ask_domain"
    /\ LET r == AskDomainOnAnswer(arg.domains, arg.input)
       IN /\ pc' = IF r.act = "return" THEN "domain_chosen" ELSE "domain_asked_again"
          /\ ret' = r.value
    /\ UNCHANGED <<variant, arg, mainVars>>

NextDomain == AskDomain

SpecDomain == InitDomain /\ [][NextDomain]_vars

(***************************************************************************)
(* Vocabulary of the properties                                            *)
(***************************************************************************)
\* The outcome taxonomy of one upstream answer
Outcome(resp) ==
    IF resp.kind = "neterr" THEN "TransientError"
    ELSE IF Ok(resp) THEN "Created"
    ELSE IF resp.status = 422 /\ Includes(resp.body, PatAlreadyUsed) THEN "AlreadyExists"
    ELSE IF resp.status = 429 THEN "RateLimited"
    ELSE IF resp.status >= 500 THEN "TransientError"
    ELSE IF resp.kind = "http" THEN "PermanentFailure"
    ELSE "None"

\* Request i has its terminal outcome: results[i] is its ledger entry and the
\* history variables still describe its attempts
Resolved == pc \in {"pace", "next", "report", "done"}

\* The governor is working on request i
Governing == pc \in {"presleep", "call", "in_flight", "backoff"}

\* The retry budget R and the base delay D of the running implementation
R == IF variant = "workflow" THEN maxRetries ELSE retries
D == BaseDelay(variant)

IsMaxRetriesMessage(m) ==
    m \in { <<"Max retries reached">>, <<"Max retries exceeded due to rate limiting">> }

CreatedMessages == { <<"Created">>, <<"Account created successfully">> }
AlreadyExistsMessages == { <<"Already exists">>, <<"Account already exists">> }

\* The outcome a ledger entry records
EntryOutcome(e) ==
    IF e.message \in CreatedMessages THEN "Created"
    ELSE IF e.message \in AlreadyExistsMessages THEN "AlreadyExists"
    ELSE "Failure"

(***************************************************************************)
(* C1                                                                      *)
(***************************************************************************)
\* C1: the batch never aborts early: once the loop is over (the report is
\* about to be written or has been written) the ledger holds exactly count
\* entries, entry k being the one of generated request k, whatever the
\* outcomes were.
C1_NeverAbortsEarly ==
    pc \in {"report", "done"} =>
        /\ Len(results) = count
        /\ \A k \in 1..count : results[k].address = Address(variant, k, count)

\* a finished batch whose first request failed terminally and was followed
\* by a further request
C1_Witness ==
    /\ pc = "done"
    /\ count >= 2
    /\ ~results[1].success
    /\ Len(results) = count

(***************************************************************************)
(* C2                                                                      *)
(***************************************************************************)
\* C2: when every creation call for an identity was answered with HTTP 429,
\* the governor returns after exactly R + 1 = 8 calls, with a failure.
C2_EightCallsOn429 ==
    (Resolved /\ calls >= 1 /\ nRateLimited = calls) =>
        /\ calls = R + 1
        /\ ~results[i].success

(***************************************************************************)
(* C3                                                                      *)
(***************************************************************************)
\* C3: the first creation call is preceded by a wait of D, and an identity
\* that succeeds after k retryable outcomes has waited D * 2^k in total
\* and used k + 1 attempts.
C3_TotalWait ==
    /\ (pc = "in_flight" /\ calls = 1) => waited = D
    /\ (Resolved /\ results[i].success /\ nRateLimited + nTransient = calls - 1) =>
          waited = D * Pow2(calls - 1)

(***************************************************************************)
(* C4                                                                      *)
(***************************************************************************)
IsTransient(resp) == Outcome(resp) = "TransientError"

C5_PermanentNotRetried ==
    Outcome(lastResp) = "PermanentFailure" =>
        /\ Resolved
        /\ ~results[i].success
        /\ Includes(results[i].message, String(lastResp.status))
        /\ Includes(results[i].message, lastResp.body)
        /\ (nRateLimited + nTransient = 0 => calls = 1)

(***************************************************************************)
(* C6                                                                      *)
(***************************************************************************)
\* C6: a 422 answer whose body contains "already used" resolves the
\* identity as AlreadyExists (success = true) on whichever attempt it
\* arrives; it is never retried and never a failure.
C6_AlreadyExists ==
    Outcome(lastResp) = "AlreadyExists" =>
        /\ Resolved
        /\ results[i].success
        /\ EntryOutcome(results[i]) = "AlreadyExists"
        /\ results[i].address = Address(variant, i, count)

\* the duplicate answer arrived on a retry
C6_Witness ==
    /\ Outcome(lastResp) = "AlreadyExists"
    /\ calls >= 2
    /\ Resolved
    /\ results[i].success

(***************************************************************************)
(* C7                                                                      *)
(***************************************************************************)
\* C7: every 2xx answer resolves the identity as Created (success = true),
\* whatever the body is.
C7_TwoXXCreated ==
    Ok(lastResp) =>
        /\ Resolved
        /\ results[i].success
        /\ EntryOutcome(results[i]) = "Created"

(***************************************************************************)
(* C8                                                                      *)
(***************************************************************************)
\* C8: an identity all of whose answers were retryable and that used up the
\* budget ends in a failure tagged "max retries", after R + 1 attempts.
C8_MaxRetriesDiagnostic ==
    (Resolved /\ calls >= R /\ nRateLimited + nTransient = calls
       /\ Outcome(lastResp) \in {"RateLimited", "TransientError"}) =>
        /\ ~results[i].success
        /\ IsMaxRetriesMessage(results[i].message)
        /\ calls = R + 1

(***************************************************************************)
(* C9                                                                      *)
(***************************************************************************)
\* C9: the ledger is append-only and order-preserving: entry k is the entry
\* of generated request k; the entry of request i is appended exactly once,
\* in the step that makes its terminal outcome known; no entry is ever
\* changed or removed.
C9_LedgerOrdered ==
    /\ [](/\ \A k \in 1..Len(results) :
                results[k].address = Address(variant, k, count)
          /\ Governing => Len(results) = i - 1
          /\ Resolved => Len(results) = i)
    /\ [][ \/ results' = results
           \/ /\ Len(results') = Len(results) + 1
              /\ SubSeq(results', 1, Len(results)) = results
              /\ Governing /\ Resolved'
              /\ i' = i
       ]_vars

\* the second entry has been appended behind the first
C9_Witness ==
    /\ Len(results) = 2
    /\ i = 2
    /\ Resolved
    /\ results[1].address # results[2].address

(***************************************************************************)
(* C10                                                                     *)
(***************************************************************************)
Indices(accounts, outcomes) ==
    { k \in 1..Len(accounts) : EntryOutcome(accounts[k]) \in outcomes }

\* C10: for every ledger, the empty one included, the created count is the
\* number of entries recorded as Created or AlreadyExists, the failed count
\* the number of all other entries, and the two add up to the ledger length.
C10_AggregatorCounts ==
    report.written =>
        /\ report.totalCreated =
              Cardinality(Indices(results, {"Created", "AlreadyExists"}))
        /\ report.totalFailed = Cardinality(Indices(results, {"Failure"}))
        /\ report.totalCreated + report.totalFailed = Len(results)

\* a ledger with one success and one failure has been aggregated
C10_Witness ==
    /\ pc = "aggregated"
    /\ report.written
    /\ Len(results) = 2
    /\ report.totalCreated = 1
    /\ report.totalFailed = 1

(***************************************************************************)
(* C11                                                                     *)
(***************************************************************************)
RECURSIVE Pow10(_)
Pow10(n) == IF n = 0 THEN 1 ELSE 10 * Pow10(n - 1)

\* number of decimal digits of n >= 1
DigitCount(n) == CHOOSE d \in 1..9 : Pow10(d - 1) <= n /\ n < Pow10(d)

\* an address is base name, suffix, "@", domain
SuffixOf(address) == SubSeq(address, 2, Len(address) - 2)

C12_BaseUsernameNonEmpty ==
    /\ pc = "asked" => ret # << >>
    /\ pc = "addressed" => Len(ret) > Len(pad(1, padSize(1))) + Len(<<"@", "domain">>)

(***************************************************************************)
(* C13                                                                     *)
(***************************************************************************)
\* C13: once a cancellation signal has been raised after entry k of n
\* (k < n), no further creation call is issued, the ledger keeps exactly
\* k entries and the report is produced from those k entries.
C13_CancelStopsBatch ==
    cancelAfter # -1 =>
        /\ inFlight = 0
        /\ Len(results) = cancelAfter
        /\ pc = "done" => report.written /\ Len(results) = cancelAfter

(***************************************************************************)
(* C14                                                                     *)
(***************************************************************************)
\* C14: for every answer to POST /token (2xx, non-2xx, network exception)
\* the CLI's existence probe returns a boolean that is true exactly for a
\* 2xx response, and the program does not abort: it goes on to the batch.
C14_ProbeNeverFails ==
    (IsCli /\ probeResp # NoResp) =>
        /\ exists \in BOOLEAN
        /\ exists = Ok(probeResp)
        /\ pc # "aborted"
        /\ i >= 1

\* the probe met a network exception, returned false and the batch started
C14_Witness ==
    /\ variant = "cli_v2"
    /\ probeResp = NetErr
    /\ exists = FALSE
    /\ pc = "call"
    /\ i = 1

(***************************************************************************)
(* C16                                                                     *)
(***************************************************************************)
\* C16: at most one creation call is in flight at any time; a call for
\* request i is issued only when none is in flight (the previous call of
\* the same identity has returned) and the outcomes of requests 1..i-1 are
\* in the ledger.
C16_OneInFlight ==
    /\ [](/\ inFlight \in {0, 1}
          /\ inFlight = 1 <=> pc = "in_flight"
          /\ inFlight = 1 => Len(results) = i - 1)
    /\ [][inFlight' > inFlight =>
            /\ inFlight = 0
            /\ inFlight' = 1
            /\ Len(results) = i - 1]_vars

\* a retry for the second request is in flight, the first is in the ledger
C16_Witness ==
    /\ inFlight = 1
    /\ i = 2
    /\ calls = 2
    /\ Len(results) = 1

C18_WitnessEmpty ==
    /\ variant = "cli_v2"
    /\ domains = "empty"
    /\ pc = "aborted"

(***************************************************************************)
(* C19                                                                     *)
(***************************************************************************)
\* position of ledger entry k among the entries of the index set class
RankIn(k, class) == Cardinality({j \in class : j <= k})

\* C19: in the written report every ledger entry appears in exactly one
\* block: a successful entry in the success block with its address and
\* password, any other entry in the failure block with its address and
\* message, each at the position its ledger order gives it within its
\* block; the header counts equal the lengths of the rendered blocks.
C19_NothingDropped ==
    report.written =>
        LET succ == {k \in 1..Len(results) : results[k].success}
            fail == {k \in 1..Len(results) : ~results[k].success}
        IN /\ Len(report.successBlock) = Cardinality(succ)
           /\ Len(report.failedBlock) = Cardinality(fail)
           /\ Len(report.successBlock) + Len(report.failedBlock) = Len(results)
           /\ \A k \in succ :
                report.successBlock[RankIn(k, succ)]
                    = <<results[k].address, results[k].password>>
           /\ \A k \in fail :
                report.failedBlock[RankIn(k, fail)]
                    = <<results[k].address, results[k].message>>
           /\ report.totalCreated = Len(report.successBlock)
           /\ report.totalFailed = Len(report.failedBlock)

\* a CLI report of a failed entry followed by a successful one
C19_Witness ==
    /\ variant = "cli_v2"
    /\ report.written
    /\ Len(results) = 2
    /\ ~results[1].success
    /\ results[2].success
    /\ Len(report.failedBlock) = 1
    /\ Len(report.successBlock) = 1

(***************************************************************************)
(* C20                                                                     *)
(***************************************************************************)
\* C20: when every awaited call eventually returns or raises and every
\* sleep eventually ends, a batch that has started (for every count and
\* every sequence of upstream outcomes) eventually reaches the state in
\* which the report has been written from a ledger of count entries.
C20_BatchCompletes ==
    (i >= 1) ~> (pc = "done" /\ report.written /\ Len(results) = count)

\* a finished batch in which every request failed
C20_Witness ==
    /\ pc = "done"
    /\ report.written
    /\ count = 2
    /\ Len(results) = count
    /\ \A k \in 1..count : ~results[k].success

IsNumeral(t) == t # << >> /\ \A k \in 1..Len(t) : t[k] \in Digits

\* C22: when the operator types, with or without a leading "@", a name that
\* is in the fetched domain list, askDomain returns exactly that name, also
\* when the name begins with decimal digits; otherwise a numeric answer k
\* with 1 <= k <= number of domains returns the k-th listed domain.
C22_DomainByName ==
    pc \in {"domain_chosen", "domain_asked_again"} =>
        LET name == StripLeadingAt(arg.input)
        IN /\ ListIncludes(arg.domains, name)
                => (pc = "domain_chosen" /\ ret = name)
           /\ (~ListIncludes(arg.domains, name) /\ IsNumeral(name)
                 /\ NumberOf(name) >= 1 /\ NumberOf(name) <= Len(arg.domains))
                => (pc = "domain_chosen" /\ ret = arg.domains[NumberOf(name)])

(***************************************************************************)
(* C23                                                                     *)
(***************************************************************************)
\* C23: within one identity the wait that precedes the j-th retry (the call
\* number j + 1) is exactly D * 2^(j-1), whatever mixture of rate-limited
\* and transient answers the earlier calls received.
C23_BackoffSchedule ==
    (pc = "in_flight" /\ calls >= 2) => lastWait = D * Pow2(calls - 2)

\* the third call of an identity whose first two answers were one rate
\* limit and one network error
C23_Witness ==
    /\ variant = "cli_v2"
    /\ pc = "in_flight"
    /\ calls = 3
    /\ nRateLimited = 1
    /\ nTransient = 1
    /\ lastWait = D * 2

(***************************************************************************)
(* C24                                                                     *)
(***************************************************************************)
\* C24: in a CLI run that reaches the batch, POST /token is issued exactly
\* once: after the domain list was fetched, before the first POST /accounts
\* call, and never once the batch loop has started.
C24_ProbeOnceBeforeBatch ==
    /\ [](IsCli =>
            /\ pc = "probe" => /\ probeResp = NoResp
                               /\ domains \in {"ok", "empty"}
                               /\ i = 0
                               /\ calls = 0
                               /\ inFlight = 0
                               /\ results = << >>
            /\ i >= 1 => probeResp # NoResp /\ pc # "probe")
    /\ [][(IsCli /\ probeResp' # probeResp) =>
            /\ pc = "probe"
            /\ probeResp = NoResp
            /\ i = 0]_vars
    /\ [][(IsCli /\ pc = "probe") => probeResp' # NoResp /\ pc' # "probe"]_vars
    /\ [][(IsCli /\ probeResp # NoResp) => pc' # "probe"]_vars

\* the second request of a CLI batch is in flight; the probe has answered
C24_Witness ==
    /\ variant = "cli_v2"
    /\ probeResp = Http(200, BodyWithId)
    /\ exists
    /\ i = 2
    /\ inFlight = 1

(***************************************************************************)
(* C25                                                                     *)
(***************************************************************************)
\* C25: in every state of a CLI run successCount is the number of ledger
\* entries with success = true, failCount the number with success = false,
\* their sum the ledger length; once the loop is over the sum is count.
C25_CountersAgree ==
    IsCli =>
        /\ successCount = Cardinality({k \in 1..Len(results) : results[k].success})
        /\ failCount = Cardinality({k \in 1..Len(results) : ~results[k].success})
        /\ successCount + failCount = Len(results)
        /\ pc \in {"report", "done"} => successCount + failCount = count

\* after the second iteration of a v1 run: one success, one failure
C25_Witness ==
    /\ variant = "cli_v1"
    /\ pc = "report"
    /\ count = 2
    /\ results[1].success
    /\ ~results[2].success
    /\ successCount = 1
    /\ failCount = 1

(***************************************************************************)
(* C26                                                                     *)
(***************************************************************************)
\* C26: every wait inside the governor is followed by a further creation
\* call for the same identity: the governor never sleeps and then returns
\* without calling upstream again.
C26_NoWastedBackoff ==
    [][(pc = "backoff" \/ pc = "presleep") => (pc' = "call" /\ i' = i)]_vars

(***************************************************************************)
(* C27                                                                     *)
(***************************************************************************)
\* C27: a creation call is only ever issued for the request i that has no
\* ledger entry yet; the loop index never goes back and an entry, once
\* appended, stays, so an identity with a terminal outcome is never
\* contacted again; one identity receives at most R + 1 creation calls.
C27_ResolvedNeverContacted ==
    /\ [](calls <= R + 1)
    /\ [][calls' = calls + 1 =>
            /\ Governing
            /\ i' = i
            /\ Len(results) = i - 1
            /\ results' = results]_vars
    /\ [][i' >= i /\ Len(results') >= Len(results)]_vars
    /\ [][Len(results') > Len(results) =>
            /\ Len(results') = i
            /\ results'[i].address = Address(variant, i, count)
            /\ calls' = calls]_vars
    /\ [][i' # i => (i' = i + 1 /\ calls' = 0 /\ Len(results) = i)]_vars

\* the second identity of a workflow run resolved after R + 1 calls
C27_Witness ==
    /\ variant = "workflow"
    /\ Resolved
    /\ i = 2
    /\ Len(results) = 2
    /\ calls = R + 1

(***************************************************************************)
(* C28                                                                     *)
(***************************************************************************)
\* C28: the report is written exactly once and only when the whole batch is
\* resolved: the write happens with count entries in the ledger and no
\* call in flight, it is the last step of the run (no creation call and no
\* second write follow), and before it nothing is written.
C28_ReportWrittenOnceAtEnd ==
    /\ [](report.written <=> pc = "done")
    /\ [](report.written =>
            /\ Len(results) = count
            /\ inFlight = 0
            /\ report.totalCreated + report.totalFailed = count)
    /\ [][report' # report =>
            /\ ~report.written
            /\ report'.written
            /\ pc = "report"
            /\ Len(results) = count
            /\ results' = results
            /\ calls' = calls
            /\ inFlight = 0]_vars
    /\ [][~report.written]_vars

\* a written report of two entries
C28_Witness ==
    /\ pc = "done"
    /\ report.written
    /\ count = 2
    /\ Len(results) = 2
    /\ report.totalCreated = 1
    /\ report.totalFailed = 1

(***************************************************************************)
(* C29                                                                     *)
(***************************************************************************)
\* the attempt counter value a governor starts with
FirstAttempt == IF variant = "workflow" THEN 0 ELSE 1

\* C29: every identity starts with a fresh attempt counter and, in the CLI,
\* a fresh delay D, and its first backoff wait (the one before its second
\* call) is D, whatever the earlier identities of the batch needed.
C29_BackoffPerIdentity ==
    /\ [](/\ (Governing /\ calls = 0) =>
                /\ attempt = FirstAttempt
                /\ IsCli => delay = D
          /\ (pc = "in_flight" /\ calls = 2) => lastWait = D)
    /\ [][i' # i =>
            /\ attempt' = FirstAttempt
            /\ delay' = D
            /\ calls' = 0
            /\ waited' = 0]_vars

\* the second identity of a CLI batch makes its first retry after D, the
\* first identity having used up its budget
C29_Witness ==
    /\ variant = "cli_v2"
    /\ i = 2
    /\ IsMaxRetriesMessage(results[1].message)
    /\ pc = "in_flight"
    /\ calls = 2
    /\ lastWait = D

====
